---------------------------- MODULE Spec2Model ----------------------------
(***************************************************************************)
(* A model of the tensor engines of EurekaLabsAI/tensor.                   *)
(*                                                                         *)
(* The Python classes tensor1d.Tensor and tensor2d.Tensor (src/tensor1d.py *)
(* and src/tensor2d.py) wrap a C library each, libtensor1d.so and          *)
(* libtensor2d.so.  The wrappers are modelled from their source; the C     *)
(* functions they call are declared in the cdef blocks of the two files    *)
(* and are modelled from sections 3 and 4 of the specification.            *)
(*                                                                         *)
(* A Python Tensor object holds exactly one C Tensor (self.tensor), so the *)
(* two are one element of the bag `tensor'; objects that hold equal        *)
(* structs are interchangeable.  A float is modelled by the integer it     *)
(* equals; ToCFloat rounds to the 24-bit significand of a C float.         *)
(***************************************************************************)
EXTENDS Integers, Sequences, FiniteSets, Bags, TLC

\* ------------------------------------------------------------ bounds
\* Python Tensor objects alive at once
MaxTensors == 3
\* Storage buffers allocated at once
MaxStorages == 2
\* the same, in the specifications of views alone
MaxViews == 2
MaxRoots == 1
\* largest cell value an arithmetic result may hold
MaxVal == 3
\* largest stride (in magnitude) of a view that is made
MaxStride == 4
\* largest offset (in magnitude) of a view that is made
MaxOffset == 6
\* Tensor structs over one Storage whose object is collected and that are never freed
MaxLost == 2
\* largest size passed to arange where slices are compared with Python's, and the
\* largest magnitude of their bounds and of their steps
MaxLen == 4
MaxKey == 5
MaxStep == 3
\* longest list, and most rows and columns, passed to tensor()
MaxList == 2

VARIABLES
    lib,        \* the library the process loaded: "1d" or "2d"
    storage,    \* storage[s]: a Storage struct and whether it is allocated
    tensor,     \* the bag of the Tensor structs of the live Tensor objects
    last        \* the last call: its operation, arguments, result and error

vars == <<lib, storage, tensor, last>>

Slots == 1 .. MaxStorages
\* Python's None, and an int, where either may be passed
None == <<>>
Some(k) == <<k>>

\* ------------------------------------------------------------ helpers
Max(a, b) == IF a > b THEN a ELSE b
Min(a, b) == IF a < b THEN a ELSE b
Abs(a) == IF a < 0 THEN -a ELSE a

\* a / b rounded towards plus infinity, for b # 0
ceil_div(a, b) ==
    LET n == IF b > 0 THEN a ELSE -a
        d == Abs(b)
    IN  IF n >= 0 THEN (n + d - 1) \div d ELSE -((-n) \div d)

\* ------------------------------------------------------------ C float
TwoTo24 == 16777216

RECURSIVE Ulp(_, _)
\* the spacing of the floats around the magnitude a (a >= 2^24)
Ulp(a, u) == IF a < TwoTo24 * u THEN u ELSE Ulp(a, 2 * u)

\* the C float nearest to the number v (round to nearest, ties to even):
\* what cffi stores when a Python float is passed as a `float' argument
ToCFloat(v) ==
    IF Abs(v) <= TwoTo24 THEN v
    ELSE LET a == Abs(v)
             u == Ulp(a, 1)
             q == a \div u
             r == a % u
             n == IF 2 * r > u \/ (2 * r = u /\ q % 2 = 1) THEN q + 1 ELSE q
         IN  IF v < 0 THEN -(n * u) ELSE n * u

\* ------------------------------------------------------------ Storage
\* A Storage slot that holds no buffer.  Beside the fields of the C struct a slot keeps
\* whether its buffer is allocated (state), how often the buffer was freed (frees), and
\* how many Tensor structs over it are lost: their Python object was collected and
\* tensor_free was not called for them (lost).
NoStorage ==
    [data |-> <<>>, data_size |-> 0, ref_count |-> 0, state |-> "unused", frees |-> 0, lost |-> 0]

\* the lowest slot that holds no live buffer (0: none)
FreeSlot(S) ==
    IF \E s \in Slots : S[s].state # "live"
    THEN CHOOSE s \in Slots : S[s].state # "live" /\ \A r \in Slots : r < s => S[r].state = "live"
    ELSE 0

\* allocate(n): a Storage of the cells `data', ref_count = 1, in slot s
storage_new(S, s, data) ==
    [S EXCEPT ![s] = [data |-> data, data_size |-> Len(data), ref_count |-> 1,
                      state |-> "live", frees |-> 0, lost |-> 0]]

\* retain(s): ref_count += 1
storage_incref(S, s) == [S EXCEPT ![s].ref_count = @ + 1]

\* release(s): ref_count -= 1; the buffer is freed when the count reaches 0
storage_decref(S, s) ==
    IF S[s].ref_count - 1 = 0
    THEN [S EXCEPT ![s] = [data |-> <<>>, data_size |-> 0, ref_count |-> 0,
                           state |-> "freed", frees |-> S[s].frees + 1, lost |-> S[s].lost]]
    ELSE [S EXCEPT ![s].ref_count = @ - 1]

\* the cell p (counted from 0) of a Storage
storage_getitem(S, s, p) == S[s].data[p + 1]
storage_setitem(S, s, p, v) == [S EXCEPT ![s].data[p + 1] = v]

\* ------------------------------------------------------------ results of a C call
\* no Tensor
NoTensor == [storage |-> 0]

\* a call that made the Tensor t, the Storage structs after it being S
Made(S, t) == [err |-> "none", raised |-> "none", S |-> S, t |-> t, val |-> 0]
\* a call that returned the value val
Val(S, val) == [err |-> "none", raised |-> "none", S |-> S, t |-> NoTensor, val |-> val]
\* a call that failed with error e and changed nothing
Fail(S, e) == [err |-> e, raised |-> "none", S |-> S, t |-> NoTensor, val |-> 0]
\* the Python exception e raised by the wrapper
Raise(S, e) == [err |-> "none", raised |-> e, S |-> S, t |-> NoTensor, val |-> 0]
\* a call whose behaviour is undefined: a build produces one of the results `among'
Undefined(S, among) ==
    [err |-> "undefined", raised |-> "none", S |-> S, t |-> NoTensor, val |-> 0, among |-> among]
\* the results a call can have
Resolve(r) == IF r.err = "undefined" THEN r.among ELSE {r}

\* ------------------------------------------------------------ the reference
\* Every Tensor struct carries, beside the fields of the C struct, `ref': the Python
\* list (ref.list) that the reference, torch on arange(n), gives for the operations
\* that made the Tensor, when it was made by arange, reshape of a contiguous Tensor
\* and slices alone (ref.ok).
NoRef == [ok |-> FALSE, list |-> <<>>]
Ref(list) == [ok |-> TRUE, list |-> list]

\* a slice bound of a list of length n, as CPython adjusts it for a positive step
PyAdjust(ix, n, dflt) ==
    IF ix = None THEN dflt
    ELSE IF ix[1] < 0 THEN Max(ix[1] + n, 0) ELSE Min(ix[1], n)

\* list[start:stop:step] of a Python list, for a positive step
PyListSlice(list, start, stop, step) ==
    LET n  == Len(list)
        k  == IF step = None THEN 1 ELSE step[1]
        lo == PyAdjust(start, n, 0)
        hi == PyAdjust(stop, n, n)
        m  == IF lo < hi THEN (hi - lo - 1) \div k + 1 ELSE 0
    IN  [i \in 1 .. m |-> list[lo + (i - 1) * k + 1]]

\* ------------------------------------------------------------ libtensor1d
\* a new 1-D Tensor over the new Storage of cells `data': offset 0, unit stride
T1_tensor_new(S, data, ref) ==
    LET s == FreeSlot(S)
    IN  Made(storage_new(S, s, data),
             [storage |-> s, offset |-> 0, size |-> Len(data), stride |-> 1, ref |-> ref])

\* tensor_empty(size): the cells hold whatever the allocator left there (`junk')
T1_tensor_empty(S, junk) == T1_tensor_new(S, junk, NoRef)

\* tensor_zeros(size)
T1_tensor_zeros(S, size) == T1_tensor_new(S, [i \in 1 .. size |-> 0], NoRef)

\* tensor_arange(size): the cells hold 0 .. size-1
T1_tensor_arange(S, size) ==
    T1_tensor_new(S, [i \in 1 .. size |-> i - 1], Ref([i \in 1 .. size |-> i - 1]))

\* logical_to_physical(t, ix): no bounds check, no wrap-around
T1_logical_to_physical(t, ix) == t.offset + ix * t.stride

\* an index with a negative value counted from the end
Normalize(ix, size) == IF ix < 0 THEN ix + size ELSE ix

\* tensor_getitem(t, ix)
T1_tensor_getitem(S, t, ix) ==
    LET i == Normalize(ix, t.size)
    IN  IF i < 0 \/ i >= t.size THEN Fail(S, "IndexError")
        ELSE Val(S, storage_getitem(S, t.storage, T1_logical_to_physical(t, i)))

\* tensor_setitem(t, ix, val)
T1_tensor_setitem(S, t, ix, val) ==
    LET i == Normalize(ix, t.size)
    IN  IF i < 0 \/ i >= t.size THEN Fail(S, "IndexError")
        ELSE Val(storage_setitem(S, t.storage, T1_logical_to_physical(t, i), val), 0)

\* tensor_getitem_astensor(t, ix): a view of the one element ix
T1_tensor_getitem_astensor(S, t, ix) ==
    LET i == Normalize(ix, t.size)
    IN  IF i < 0 \/ i >= t.size THEN Fail(S, "IndexError")
        ELSE Made(storage_incref(S, t.storage),
                  [storage |-> t.storage, offset |-> T1_logical_to_physical(t, i),
                   size |-> 1, stride |-> 1, ref |-> NoRef])

\* tensor_item(t): the one element of a Tensor of size 1.  No guard of the size is
\* explicit: for another size the call is rejected with ValueError, or element 0 is
\* read as tensor_getitem reads it, or the cell at the offset is read unchecked.
T1_tensor_item(S, t) ==
    IF t.size = 1 THEN T1_tensor_getitem(S, t, 0)
    ELSE Undefined(S, {Fail(S, "ValueError"), T1_tensor_getitem(S, t, 0)}
                       \cup (IF t.offset >= 0 /\ t.offset < S[t.storage].data_size
                             THEN {Val(S, storage_getitem(S, t.storage, t.offset))}
                             ELSE {}))

\* start or stop of a slice: counted from the end when negative, then clamped
Clamp(ix, size) == Min(Max(Normalize(ix, size), 0), size)

\* max(0, ceil((en - st) / step)), the size of a slice along one axis.  The quotient is
\* not defined for step = 0; a build that goes on past it (a float division, whose
\* infinite or NaN quotient converts to the least int) comes to the size 0.
AxisSize(st, en, step) == IF step = 0 THEN 0 ELSE Max(0, ceil_div(en - st, step))

\* tensor_slice(t, start, end, step): a view over the same Storage.  For step = 0 the
\* behaviour is undefined: the call is rejected with ValueError, or the division by
\* zero ends the process (SIGFPE), or an empty view of stride 0 is made.
T1_tensor_slice(S, t, start, end, step) ==
    LET st == Clamp(start, t.size)
        en == Clamp(end, t.size)
        view(n) == Made(storage_incref(S, t.storage),
                        [storage |-> t.storage,
                         offset |-> t.offset + st * t.stride,
                         size |-> n,
                         stride |-> t.stride * step,
                         ref |-> NoRef])
    IN  IF step = 0
        THEN Undefined(S, {Fail(S, "ValueError"), Fail(S, "SIGFPE"),
                           view(AxisSize(st, en, step))})
        ELSE view(AxisSize(st, en, step))

\* the elements of a 1-D Tensor in logical order
T1_elements(S, t) ==
    [i \in 1 .. t.size |-> storage_getitem(S, t.storage, T1_logical_to_physical(t, i - 1))]

\* tensor_addf(t, val): a new Tensor of t[i] + val
T1_tensor_addf(S, t, val) ==
    LET e == T1_elements(S, t)
    IN  T1_tensor_new(S, [i \in 1 .. Len(e) |-> ToCFloat(e[i] + val)], NoRef)

\* tensor_add(t1, t2): elementwise; a one-element operand is added to every element
T1_tensor_add(S, t1, t2) ==
    LET a == T1_elements(S, t1)
        b == T1_elements(S, t2)
    IN  IF Len(a) = Len(b)
        THEN T1_tensor_new(S, [i \in 1 .. Len(a) |-> ToCFloat(a[i] + b[i])], NoRef)
        ELSE IF Len(b) = 1
        THEN T1_tensor_new(S, [i \in 1 .. Len(a) |-> ToCFloat(a[i] + b[1])], NoRef)
        ELSE IF Len(a) = 1
        THEN T1_tensor_new(S, [i \in 1 .. Len(b) |-> ToCFloat(a[1] + b[i])], NoRef)
        ELSE Fail(S, "NULL")

\* tensor_free(t): releases the Storage (the Tensor struct is freed)
T1_tensor_free(S, t) == Val(storage_decref(S, t.storage), 0)

\* ------------------------------------------------------------ Python values
\* a slice object start:stop:step, each None or Some(int)
PySlice(start, stop, step) == [kind |-> "slice", start |-> start, stop |-> stop, step |-> step]
\* an int, and a value that is neither an int, a slice nor a Tensor (a str)
PyInt(k) == [kind |-> "int", v |-> k]
PyStr == [kind |-> "str"]
\* a Tensor object, as the operand of + and *
PyObj(t) == [kind |-> "Tensor", t |-> t]
\* a tuple of two values
PyTuple(a, b) == [kind |-> "tuple", v |-> <<a, b>>]

\* ------------------------------------------------------------ tensor1d.Tensor
RECURSIVE T1_init_fill(_, _, _, _)
\* the loop of Tensor.__init__ over a list: element i - 1 is set to float(data[i])
T1_init_fill(S, t, data, i) ==
    IF i > Len(data) THEN S
    ELSE T1_init_fill(T1_tensor_setitem(S, t, i - 1, ToCFloat(data[i])).S, t, data, i + 1)

\* an __init__ that sets no element: the Tensor keeps the cells of arange
T1_Tensor_init_list_unset(S, data) ==
    LET r == T1_tensor_arange(S, Len(data))
    IN  Made(r.S, [r.t EXCEPT !.ref = NoRef])

\* Tensor.__init__(size_or_data) with a list
T1_Tensor_init_list(S, data) ==
    LET r == T1_tensor_arange(S, Len(data))
    IN  Made(T1_init_fill(r.S, r.t, data, 1), [r.t EXCEPT !.ref = NoRef])

\* a __getitem__ that wraps the struct of the Tensor itself for every slice: no view is
\* made, and nothing is retained
T1_Tensor_getitem_same(S, t, key) ==
    IF key.kind = "int" THEN T1_tensor_getitem_astensor(S, t, key.v)
    ELSE IF key.kind = "slice" THEN Made(S, t)
    ELSE Raise(S, "TypeError")

\* a __getitem__ that takes an unspecified stop for -1: the last element is left out
T1_Tensor_getitem_short(S, t, key) ==
    IF key.kind = "int" THEN T1_tensor_getitem_astensor(S, t, key.v)
    ELSE IF key.kind = "slice"
    THEN T1_tensor_slice(S, t, IF key.start # None THEN key.start[1] ELSE 0,
                         IF key.stop = None THEN -1 ELSE key.stop[1],
                         IF key.step = None THEN 1 ELSE key.step[1])
    ELSE Raise(S, "TypeError")

\* a __getitem__ that passes no step on: every slice is taken with step 1
T1_Tensor_getitem_unit(S, t, key) ==
    IF key.kind = "int" THEN T1_tensor_getitem_astensor(S, t, key.v)
    ELSE IF key.kind = "slice"
    THEN T1_tensor_slice(S, t, IF key.start # None THEN key.start[1] ELSE 0,
                         IF key.stop = None THEN t.size ELSE key.stop[1], 1)
    ELSE Raise(S, "TypeError")

\* a __getitem__ that takes every int for 0: t[i] is a view of the first element
T1_Tensor_getitem_first(S, t, key) ==
    IF key.kind = "int" THEN T1_tensor_getitem_astensor(S, t, 0)
    ELSE IF key.kind = "slice"
    THEN T1_tensor_slice(S, t, IF key.start # None THEN key.start[1] ELSE 0,
                         IF key.stop = None THEN t.size ELSE key.stop[1],
                         IF key.step = None THEN 1 ELSE key.step[1])
    ELSE Raise(S, "TypeError")

\* Tensor.__getitem__(key)
T1_Tensor_getitem(S, t, key) ==
    IF key.kind = "int" THEN T1_tensor_getitem_astensor(S, t, key.v)
    ELSE IF key.kind = "slice"
    THEN LET start == IF key.start # None THEN key.start[1] ELSE 0
             stop  == IF key.stop = None THEN t.size ELSE key.stop[1]
             step  == IF key.step = None THEN 1 ELSE key.step[1]
         IN  T1_tensor_slice(S, t, start, stop, step)
    ELSE Raise(S, "TypeError")

\* a __setitem__ that writes to a copy of its own: the shared buffer keeps its cells
T1_Tensor_setitem_private(S, t, key, value) ==
    IF key.kind = "int" THEN Val(S, 0) ELSE Raise(S, "TypeError")

\* Tensor.__setitem__(key, value)
T1_Tensor_setitem(S, t, key, value) ==
    IF key.kind = "int" THEN T1_tensor_setitem(S, t, key.v, ToCFloat(value))
    ELSE Raise(S, "TypeError")

\* an __add__ that passes the NULL of the library on as if it were a Tensor
T1_Tensor_add_unchecked(S, t, other) ==
    IF other.kind \notin {"int", "Tensor"} THEN Raise(S, "TypeError")
    ELSE IF other.kind = "int" THEN T1_tensor_addf(S, t, ToCFloat(other.v))
    ELSE T1_tensor_add(S, t, other.t)

\* an __add__ that retains the Storage of its Tensor for the call and leaves it retained
\* when the library returns NULL
T1_Tensor_add_retained(S, t, other) ==
    IF other.kind \notin {"int", "Tensor"} THEN Raise(S, "TypeError")
    ELSE LET r == IF other.kind = "int" THEN T1_tensor_addf(S, t, ToCFloat(other.v))
                  ELSE T1_tensor_add(S, t, other.t)
         IN  IF r.err = "NULL" THEN Raise(storage_incref(S, t.storage), "ValueError") ELSE r

\* Tensor.__add__(other)
T1_Tensor_add(S, t, other) ==
    IF other.kind \notin {"int", "Tensor"} THEN Raise(S, "TypeError")
    ELSE LET r == IF other.kind = "int" THEN T1_tensor_addf(S, t, ToCFloat(other.v))
                  ELSE T1_tensor_add(S, t, other.t)
         IN  IF r.err = "NULL" THEN Raise(S, "ValueError") ELSE r

\* Tensor.__len__()
T1_Tensor_len(t) == t.size

\* Tensor.tolist()
T1_Tensor_tolist(S, t) ==
    [i \in 1 .. T1_Tensor_len(t) |-> T1_tensor_getitem(S, t, i - 1).val]

\* Tensor.item()
T1_Tensor_item(S, t) == T1_tensor_item(S, t)

\* a __del__ that releases the Storage twice
T1_Tensor_del_twice(S, t) == T1_tensor_free(T1_tensor_free(S, t).S, t)

\* Tensor.__del__()
T1_Tensor_del(S, t) == T1_tensor_free(S, t)

\* ------------------------------------------------------------ libtensor2d
\* the rows of a list of nrows * ncols elements, row-major
Rows(flat, nrows, ncols) ==
    [r \in 1 .. nrows |-> [c \in 1 .. ncols |-> flat[(r - 1) * ncols + c]]]

RECURSIVE Flatten(_)
\* the elements of a list of rows, row-major
Flatten(rows) == IF rows = <<>> THEN <<>> ELSE Head(rows) \o Flatten(Tail(rows))

\* a new 2-D Tensor of shape (nrows, ncols) over the new Storage of cells `data',
\* row-major: offsets (0, 0), strides (ncols, 1)
T2_tensor_new(S, nrows, ncols, data, ref) ==
    LET s == FreeSlot(S)
    IN  Made(storage_new(S, s, data),
             [storage |-> s, offset |-> <<0, 0>>, size |-> nrows * ncols,
              nrows |-> nrows, ncols |-> ncols, stride |-> <<ncols, 1>>, ref |-> ref])

\* tensor_empty(nrows, ncols): the cells hold whatever the allocator left there
T2_tensor_empty(S, nrows, ncols, junk) == T2_tensor_new(S, nrows, ncols, junk, NoRef)

\* tensor_arange(size): one row of the cells 0 .. size-1
T2_tensor_arange(S, size) ==
    T2_tensor_new(S, 1, size, [i \in 1 .. size |-> i - 1],
                  Ref(<<[i \in 1 .. size |-> i - 1]>>))

\* the physical cell of the logical (row, col): no bounds check, no wrap-around
T2_logical_to_physical(t, row, col) ==
    t.offset[1] + row * t.stride[1] + t.offset[2] + col * t.stride[2]

\* tensor_getitem(t, row, col)
T2_tensor_getitem(S, t, row, col) ==
    LET r == Normalize(row, t.nrows)
        c == Normalize(col, t.ncols)
    IN  IF r < 0 \/ r >= t.nrows \/ c < 0 \/ c >= t.ncols THEN Fail(S, "IndexError")
        ELSE Val(S, storage_getitem(S, t.storage, T2_logical_to_physical(t, r, c)))

\* tensor_setitem(t, row, col, val)
T2_tensor_setitem(S, t, row, col, val) ==
    LET r == Normalize(row, t.nrows)
        c == Normalize(col, t.ncols)
    IN  IF r < 0 \/ r >= t.nrows \/ c < 0 \/ c >= t.ncols THEN Fail(S, "IndexError")
        ELSE Val(storage_setitem(S, t.storage, T2_logical_to_physical(t, r, c), val), 0)

\* tensor_slice(t, rstart, rend, rstep, cstart, cend, cstep); undefined, as in the 1-D
\* engine, when the step of an axis is 0
T2_tensor_slice(S, t, rstart, rend, rstep, cstart, cend, cstep) ==
    LET rs == Clamp(rstart, t.nrows)
        re == Clamp(rend, t.nrows)
        cs == Clamp(cstart, t.ncols)
        ce == Clamp(cend, t.ncols)
        view(nr, nc) ==
            Made(storage_incref(S, t.storage),
                 [storage |-> t.storage,
                  offset |-> <<t.offset[1] + rs * t.stride[1], t.offset[2] + cs * t.stride[2]>>,
                  size |-> nr * nc, nrows |-> nr, ncols |-> nc,
                  stride |-> <<t.stride[1] * rstep, t.stride[2] * cstep>>,
                  ref |-> NoRef])
    IN  IF rstep = 0 \/ cstep = 0
        THEN Undefined(S, {Fail(S, "ValueError"), Fail(S, "SIGFPE"),
                           view(AxisSize(rs, re, rstep), AxisSize(cs, ce, cstep))})
        ELSE view(AxisSize(rs, re, rstep), AxisSize(cs, ce, cstep))

\* reshape(t, nrows, ncols): a view over the same Storage, row-major strides
T2_reshape(S, t, nrows, ncols) ==
    IF nrows * ncols # t.size THEN Fail(S, "NULL")
    ELSE Made(storage_incref(S, t.storage),
              [storage |-> t.storage, offset |-> t.offset, size |-> t.size,
               nrows |-> nrows, ncols |-> ncols, stride |-> <<ncols, 1>>, ref |-> NoRef])

\* the elements of a 2-D Tensor, row-major
T2_elements(S, t) ==
    [i \in 1 .. t.nrows * t.ncols |->
        storage_getitem(S, t.storage,
            T2_logical_to_physical(t, (i - 1) \div t.ncols, (i - 1) % t.ncols))]

\* tensor_addf(t, val) and tensor_mulf(t, val): a new Tensor of the shape of t
T2_tensor_addf(S, t, val) ==
    LET e == T2_elements(S, t)
    IN  T2_tensor_new(S, t.nrows, t.ncols, [i \in 1 .. Len(e) |-> ToCFloat(e[i] + val)], NoRef)

T2_tensor_mulf(S, t, val) ==
    LET e == T2_elements(S, t)
    IN  T2_tensor_new(S, t.nrows, t.ncols, [i \in 1 .. Len(e) |-> ToCFloat(e[i] * val)], NoRef)

\* tensor_add(t1, t2): elementwise when the sizes agree; a one-element operand is
\* added to every element of the other
T2_tensor_add(S, t1, t2) ==
    LET a == T2_elements(S, t1)
        b == T2_elements(S, t2)
    IN  IF Len(a) = Len(b)
        THEN T2_tensor_new(S, t1.nrows, t1.ncols,
                           [i \in 1 .. Len(a) |-> ToCFloat(a[i] + b[i])], NoRef)
        ELSE IF Len(b) = 1
        THEN T2_tensor_new(S, t1.nrows, t1.ncols,
                           [i \in 1 .. Len(a) |-> ToCFloat(a[i] + b[1])], NoRef)
        ELSE IF Len(a) = 1
        THEN T2_tensor_new(S, t2.nrows, t2.ncols,
                           [i \in 1 .. Len(b) |-> ToCFloat(a[1] + b[i])], NoRef)
        ELSE Fail(S, "NULL")

\* tensor_mul(t1, t2): as tensor_add, with the product
T2_tensor_mul(S, t1, t2) ==
    LET a == T2_elements(S, t1)
        b == T2_elements(S, t2)
    IN  IF Len(a) = Len(b)
        THEN T2_tensor_new(S, t1.nrows, t1.ncols,
                           [i \in 1 .. Len(a) |-> ToCFloat(a[i] * b[i])], NoRef)
        ELSE IF Len(b) = 1
        THEN T2_tensor_new(S, t1.nrows, t1.ncols,
                           [i \in 1 .. Len(a) |-> ToCFloat(a[i] * b[1])], NoRef)
        ELSE IF Len(a) = 1
        THEN T2_tensor_new(S, t2.nrows, t2.ncols,
                           [i \in 1 .. Len(b) |-> ToCFloat(a[1] * b[i])], NoRef)
        ELSE Fail(S, "NULL")

RECURSIVE T2_dot_acc(_, _, _, _, _, _)
\* the inner loop of tensor_dot: the float sum over k of t1[r, k] * t2[k, c]
T2_dot_acc(S, t1, t2, r, c, k) ==
    IF k = 0 THEN 0
    ELSE ToCFloat(T2_dot_acc(S, t1, t2, r, c, k - 1)
                  + ToCFloat(T2_tensor_getitem(S, t1, r, k - 1).val
                             * T2_tensor_getitem(S, t2, k - 1, c).val))

\* tensor_dot(t1, t2): the matrix product
T2_tensor_dot(S, t1, t2) ==
    IF t1.ncols # t2.nrows THEN Fail(S, "NULL")
    ELSE T2_tensor_new(S, t1.nrows, t2.ncols,
                       [i \in 1 .. t1.nrows * t2.ncols |->
                           T2_dot_acc(S, t1, t2, (i - 1) \div t2.ncols, (i - 1) % t2.ncols,
                                      t1.ncols)],
                       NoRef)

\* tensor_free(t): releases the Storage (the Tensor struct is freed)
T2_tensor_free(S, t) == Val(storage_decref(S, t.storage), 0)

\* ------------------------------------------------------------ tensor2d.Tensor
RECURSIVE T2_init_fill(_, _, _, _)
\* the loops of Tensor.__init__ over a list of rows: (i, j) is set to float(data[i][j]);
\* k counts the elements set so far, the rows having the length of the first
T2_init_fill(S, t, data, k) ==
    IF k >= Len(data) * t.ncols THEN S
    ELSE T2_init_fill(
            T2_tensor_setitem(S, t, k \div t.ncols, k % t.ncols,
                              ToCFloat(data[(k \div t.ncols) + 1][(k % t.ncols) + 1])).S,
            t, data, k + 1)

\* Tensor.__init__(size_or_data) with a list of rows of one length
T2_Tensor_init_list(S, data, junk) ==
    IF data = <<>> THEN Raise(S, "IndexError")
    ELSE LET r == T2_tensor_empty(S, Len(data), Len(data[1]), junk)
         IN  Made(T2_init_fill(r.S, r.t, data, 0), r.t)

\* Tensor.__init__(size_or_data) with a tuple (nrows, ncols)
T2_Tensor_init_tuple(S, shape, junk) == T2_tensor_empty(S, shape[1], shape[2], junk)

\* Tensor.__getitem__(key): key is <<int, int>>, <<slice, slice>> or no tuple
T2_Tensor_getitem(S, t, key) ==
    IF key.kind # "tuple" THEN Raise(S, "TypeError")
    ELSE IF key.v[1].kind = "int"
    THEN T2_tensor_getitem(S, t, key.v[1].v, key.v[2].v)
    ELSE LET k0 == key.v[1]
             k1 == key.v[2]
             rstart == IF k0.start # None THEN k0.start[1] ELSE 0
             rstop  == IF k0.stop # None THEN k0.stop[1] ELSE t.nrows
             rstep  == IF k0.step # None THEN k0.step[1] ELSE 1
             cstart == IF k1.start # None THEN k1.start[1] ELSE 0
             cstop  == IF k1.stop # None THEN k1.stop[1] ELSE t.ncols
             cstep  == IF k1.step # None THEN k1.step[1] ELSE 1
         IN  T2_tensor_slice(S, t, rstart, rstop, rstep, cstart, cstop, cstep)

\* Tensor.__setitem__(key, value)
T2_Tensor_setitem(S, t, key, value) ==
    IF key.kind = "tuple" THEN T2_tensor_setitem(S, t, key.v[1].v, key.v[2].v, ToCFloat(value))
    ELSE Raise(S, "TypeError")

\* Tensor.__add__(other)
T2_Tensor_add(S, t, other) ==
    IF other.kind \notin {"int", "Tensor"} THEN Raise(S, "TypeError")
    ELSE LET r == IF other.kind = "int" THEN T2_tensor_addf(S, t, ToCFloat(other.v))
                  ELSE T2_tensor_add(S, t, other.t)
         IN  IF r.err = "NULL" THEN Raise(S, "ValueError") ELSE r

\* Tensor.__mul__(other)
T2_Tensor_mul(S, t, other) ==
    IF other.kind \notin {"int", "Tensor"} THEN Raise(S, "TypeError")
    ELSE LET r == IF other.kind = "int" THEN T2_tensor_mulf(S, t, ToCFloat(other.v))
                  ELSE T2_tensor_mul(S, t, other.t)
         IN  IF r.err = "NULL" THEN Raise(S, "ValueError") ELSE r

\* a dot that passes the NULL of the library on as if it were a Tensor
T2_Tensor_dot_unchecked(S, t, other) == T2_tensor_dot(S, t, other)

\* Tensor.dot(other)
T2_Tensor_dot(S, t, other) ==
    LET r == T2_tensor_dot(S, t, other)
    IN  IF r.err = "NULL" THEN Raise(S, "ValueError") ELSE r

\* a reshape that passes the NULL of the library on as if it were a Tensor
T2_Tensor_reshape_unchecked(S, t, shape) == T2_reshape(S, t, shape[1], shape[2])

\* Tensor.reshape(shape)
T2_Tensor_reshape(S, t, shape) ==
    LET r == T2_reshape(S, t, shape[1], shape[2])
    IN  IF r.err = "NULL" THEN Raise(S, "ValueError") ELSE r

\* Tensor.__len__()
T2_Tensor_len(t) == t.size

\* Tensor.tolist()
T2_Tensor_tolist(S, t) ==
    [i \in 1 .. t.nrows |-> [j \in 1 .. t.ncols |-> T2_tensor_getitem(S, t, i - 1, j - 1).val]]

\* lib.__dict__ of tensor2d: cffi puts a function of the library there when it is first
\* read as an attribute of lib.  These are the functions the module reads; tensor_free
\* is read in __del__ alone, behind the test that it is in lib.__dict__ already.
T2_lib_dict ==
    {"tensor_empty", "tensor_getitem", "tensor_setitem", "tensor_to_string", "tensor_addf",
     "tensor_add", "tensor_mulf", "tensor_mul", "tensor_dot", "reshape", "tensor_arange",
     "tensor_slice"}

\* Tensor.__del__(): tensor_free is called if "tensor_free" is in lib.__dict__
T2_Tensor_del(S, t) ==
    IF "tensor_free" \in T2_lib_dict THEN T2_tensor_free(S, t) ELSE Val(S, 0)

\* ------------------------------------------------------------ the state machine
\* how many Tensor objects and Storage buffers a specification lets live at once
Heap == [tensors |-> MaxTensors, storages |-> MaxStorages]
ViewHeap == [tensors |-> MaxViews, storages |-> MaxRoots]

Tensors == BagToSet(tensor)
Room(c) == BagCardinality(tensor) < c.tensors
RoomNew(c) == Room(c) /\ Cardinality({s \in Slots : storage[s].state = "live"}) < c.storages

\* what `last' keeps of a key: an int as it is, of a slice that it was one, and its
\* step when that is 0
LoggedSlice(key) ==
    IF key.step = Some(0) THEN [kind |-> "slice", step |-> 0] ELSE [kind |-> "slice"]

Logged(key) ==
    IF key.kind = "slice" THEN LoggedSlice(key)
    ELSE IF key.kind = "tuple" /\ key.v[1].kind = "slice"
    THEN PyTuple(LoggedSlice(key.v[1]), LoggedSlice(key.v[2]))
    ELSE key

\* the call op(t, arg) returned or raised as r says; no call is made in a process that
\* has ended
Commit(op, t, arg, r) ==
    /\ last.err # "SIGFPE"
    /\ storage' = r.S
    /\ last' = [op |-> op, t |-> t, arg |-> arg, res |-> r.t, val |-> r.val,
                err |-> r.err, raised |-> r.raised]
    /\ lib' = lib

\* the object of the Tensor t is collected by the call r of its __del__: when the call
\* released nothing, the struct of t is lost
Collected(S, r, t) ==
    IF r.S[t.storage].ref_count = S[t.storage].ref_count
    THEN [r EXCEPT !.S[t.storage].lost = @ + 1]
    ELSE r

\* no more than MaxLost structs over one Storage are lost
Found(r) == \A s \in Slots : r.S[s].lost <= MaxLost

\* the call r made a Tensor object, or none
Keep(r) == tensor' = IF r.t = NoTensor THEN tensor ELSE tensor (+) SetToBag({r.t})

\* the call r, its Tensor (if it made one) with the reference `ref'
WithRef(r, ref) == IF r.t = NoTensor THEN r ELSE [r EXCEPT !.t.ref = ref]

\* every cell of the Tensor a call made is at most MaxVal
Small(r) == r.t # NoTensor => \A i \in 1 .. r.S[r.t.storage].data_size :
                                 r.S[r.t.storage].data[i] <= MaxVal

\* every stride of the view a call made is at most MaxStride in magnitude, and every
\* offset at most MaxOffset
Near(r) ==
    r.t # NoTensor =>
        IF lib = "1d" THEN Abs(r.t.stride) <= MaxStride /\ Abs(r.t.offset) <= MaxOffset
        ELSE /\ Abs(r.t.stride[1]) <= MaxStride /\ Abs(r.t.stride[2]) <= MaxStride
             /\ Abs(r.t.offset[1]) <= MaxOffset /\ Abs(r.t.offset[2]) <= MaxOffset

\* a slice that Python lists take too: its step is positive
Forward(key) == key.step = None \/ key.step[1] >= 1

\* ------------------------------------------------------------ calls of tensor1d
\* tensor1d.arange(size)
A1_arange(c, n) ==
    /\ lib = "1d" /\ RoomNew(c)
    /\ LET r == T1_tensor_arange(storage, n)
       IN  Commit("arange", NoTensor, n, r) /\ Keep(r)

\* tensor1d.zeros(size)
A1_zeros(c, n) ==
    /\ lib = "1d" /\ RoomNew(c)
    /\ LET r == T1_tensor_zeros(storage, n)
       IN  Commit("zeros", NoTensor, n, r) /\ Keep(r)

\* tensor1d.empty(size)
A1_empty(c, junk) ==
    /\ lib = "1d" /\ RoomNew(c)
    /\ LET r == T1_tensor_empty(storage, junk)
       IN  Commit("empty", NoTensor, Len(junk), r) /\ Keep(r)

\* tensor1d.tensor(data)
A1_tensor(c, data) ==
    /\ lib = "1d" /\ RoomNew(c)
    /\ LET r == T1_Tensor_init_list(storage, data)
       IN  Commit("tensor", NoTensor, data, r) /\ Keep(r)

\* t[key]
A1_getitem(c, t, key) ==
    /\ lib = "1d" /\ Room(c)
    /\ \E r \in Resolve(WithRef(T1_Tensor_getitem(storage, t, key),
                                IF key.kind = "slice" /\ t.ref.ok /\ Forward(key)
                                THEN Ref(PyListSlice(t.ref.list, key.start, key.stop, key.step))
                                ELSE NoRef)) :
            Near(r) /\ Commit("getitem", t, Logged(key), r) /\ Keep(r)

\* t[key] = value
A1_setitem(t, key, value) ==
    /\ lib = "1d"
    /\ Commit("setitem", t, <<key, value>>, T1_Tensor_setitem(storage, t, key, value))
    /\ tensor' = tensor

\* t + other
A1_add(c, t, other) ==
    /\ lib = "1d" /\ RoomNew(c)
    /\ LET r == T1_Tensor_add(storage, t, other)
       IN  Small(r) /\ Commit("add", t, other, r) /\ Keep(r)

\* t.tolist()
A1_tolist(t) ==
    /\ lib = "1d"
    /\ Commit("tolist", t, None, Val(storage, T1_Tensor_tolist(storage, t)))
    /\ tensor' = tensor

\* t.item()
A1_item(t) ==
    /\ lib = "1d"
    /\ \E r \in Resolve(T1_Tensor_item(storage, t)) : Commit("item", t, None, r)
    /\ tensor' = tensor

\* len(t)
A1_len(t) ==
    /\ lib = "1d"
    /\ Commit("len", t, None, Val(storage, T1_Tensor_len(t)))
    /\ tensor' = tensor

\* the object t is collected
A1_del(t) ==
    /\ lib = "1d"
    /\ LET r == Collected(storage, T1_Tensor_del(storage, t), t)
       IN  Found(r) /\ Commit("del", t, None, r)
    /\ tensor' = tensor (-) SetToBag({t})

\* ------------------------------------------------------------ calls of tensor2d
\* the cells of a 2-D Tensor are those of one block of nrows * ncols cells, row-major
Contiguous(t) ==
    \A r \in 0 .. t.nrows - 1, c \in 0 .. t.ncols - 1 :
        T2_logical_to_physical(t, r, c) = T2_logical_to_physical(t, 0, 0) + r * t.ncols + c

\* rows[k0, k1] of a Python list of rows
PyRowsSlice(rows, k0, k1) ==
    LET picked == PyListSlice(rows, k0.start, k0.stop, k0.step)
    IN  [i \in 1 .. Len(picked) |-> PyListSlice(picked[i], k1.start, k1.stop, k1.step)]

\* tensor2d.arange(size)
A2_arange(c, n) ==
    /\ lib = "2d" /\ RoomNew(c)
    /\ LET r == T2_tensor_arange(storage, n)
       IN  Commit("arange", NoTensor, n, r) /\ Keep(r)

\* tensor2d.empty(shape)
A2_empty(c, shape, junk) ==
    /\ lib = "2d" /\ RoomNew(c)
    /\ LET r == T2_Tensor_init_tuple(storage, shape, junk)
       IN  Commit("empty", NoTensor, shape, r) /\ Keep(r)

\* tensor2d.tensor(data)
A2_tensor(c, data, junk) ==
    /\ lib = "2d" /\ RoomNew(c)
    /\ LET r == T2_Tensor_init_list(storage, data, junk)
       IN  Commit("tensor", NoTensor, data, r) /\ Keep(r)

\* t[key]
A2_getitem(c, t, key) ==
    /\ lib = "2d" /\ Room(c)
    /\ \E r \in Resolve(WithRef(T2_Tensor_getitem(storage, t, key),
                                IF key.kind = "tuple" /\ key.v[1].kind = "slice" /\ t.ref.ok
                                   /\ Forward(key.v[1]) /\ Forward(key.v[2])
                                THEN Ref(PyRowsSlice(t.ref.list, key.v[1], key.v[2]))
                                ELSE NoRef)) :
            Near(r) /\ Commit("getitem", t, Logged(key), r) /\ Keep(r)

\* t[key] = value
A2_setitem(t, key, value) ==
    /\ lib = "2d"
    /\ Commit("setitem", t, <<key, value>>, T2_Tensor_setitem(storage, t, key, value))
    /\ tensor' = tensor

\* t.reshape(shape)
A2_reshape(c, t, shape) ==
    /\ lib = "2d" /\ Room(c)
    /\ LET r == WithRef(T2_Tensor_reshape(storage, t, shape),
                        IF t.ref.ok /\ Contiguous(t) /\ shape[1] >= 0 /\ shape[2] >= 0
                        THEN Ref(Rows(Flatten(t.ref.list), shape[1], shape[2]))
                        ELSE NoRef)
       IN  Commit("reshape", t, shape, r) /\ Keep(r)

\* t + other
A2_add(c, t, other) ==
    /\ lib = "2d" /\ RoomNew(c)
    /\ LET r == T2_Tensor_add(storage, t, other)
       IN  Small(r) /\ Commit("add", t, other, r) /\ Keep(r)

\* t * other
A2_mul(c, t, other) ==
    /\ lib = "2d" /\ RoomNew(c)
    /\ LET r == T2_Tensor_mul(storage, t, other)
       IN  Small(r) /\ Commit("mul", t, other, r) /\ Keep(r)

\* t.dot(other)
A2_dot(c, t, other) ==
    /\ lib = "2d" /\ RoomNew(c)
    /\ LET r == T2_Tensor_dot(storage, t, other)
       IN  Small(r) /\ Commit("dot", t, other, r) /\ Keep(r)

\* t.tolist()
A2_tolist(t) ==
    /\ lib = "2d"
    /\ Commit("tolist", t, None, Val(storage, T2_Tensor_tolist(storage, t)))
    /\ tensor' = tensor

\* len(t)
A2_len(t) ==
    /\ lib = "2d"
    /\ Commit("len", t, None, Val(storage, T2_Tensor_len(t)))
    /\ tensor' = tensor

\* the object t is collected
A2_del(t) ==
    /\ lib = "2d"
    /\ LET r == Collected(storage, T2_Tensor_del(storage, t), t)
       IN  Found(r) /\ Commit("del", t, None, r)
    /\ tensor' = tensor (-) SetToBag({t})

\* ------------------------------------------------------------ the start
NoCall == [op |-> "import", t |-> NoTensor, arg |-> None, res |-> NoTensor, val |-> 0,
           err |-> "none", raised |-> "none"]

\* the process has imported tensor1d or tensor2d and made no Tensor yet
Init ==
    /\ lib \in {"1d", "2d"}
    /\ storage = [s \in Slots |-> NoStorage]
    /\ tensor = EmptyBag
    /\ last = NoCall

\* ------------------------------------------------------------ inputs
\* the value written by __setitem__, and the scalar of + and *
WriteVals == {MaxVal}
Scalars == {1}
\* element indices: every index of a Tensor of 3 elements, and one beyond on each side
Indices == (-4) .. 3
\* row and column indices: the first and the last of 2, and one beyond on each side
Indices2 == {-3, -1, 0, 2}
\* the slices taken of the Tensors of the heap
All == PySlice(None, None, None)
ViewKeys == {PySlice(Some(1), None, None), PySlice(None, Some(-1), None),
             PySlice(None, None, Some(2))}
ViewKeys2 == {PyTuple(All, PySlice(Some(1), None, None)), PyTuple(PySlice(Some(1), None, None), All),
              PyTuple(All, PySlice(None, None, Some(2))), PyTuple(PySlice(None, Some(-1), None), All)}
\* the shapes passed to reshape
Shapes == {<<2, 2>>, <<1, 4>>, <<2, 1>>}

\* ------------------------------------------------------------ views
\* Views of one buffer: Tensors are made, sliced, indexed, reshaped, written through,
\* read and collected.
NextViews ==
    \/ \E n \in {0, 1, 3} : A1_arange(ViewHeap, n)
    \/ \E n \in {2} : A1_zeros(ViewHeap, n)
    \/ \E junk \in {<<0>>, <<MaxVal>>} : A1_empty(ViewHeap, junk)
    \/ \E data \in {<<MaxVal, 1>>} : A1_tensor(ViewHeap, data)
    \/ \E t \in Tensors, k \in {0, -1} : A1_getitem(ViewHeap, t, PyInt(k))
    \/ \E t \in Tensors, key \in ViewKeys : A1_getitem(ViewHeap, t, key)
    \/ \E t \in Tensors, k \in {0, -1}, v \in WriteVals : A1_setitem(t, PyInt(k), v)
    \/ \E t \in Tensors : A1_tolist(t)
    \/ \E t \in Tensors : A1_del(t)
    \/ \E n \in {0, 4} : A2_arange(ViewHeap, n)
    \/ \E junk \in {<<0>>, <<MaxVal>>} : A2_empty(ViewHeap, <<1, 1>>, junk)
    \/ \E data \in {<< <<MaxVal, 1>> >>} : A2_tensor(ViewHeap, data, <<0, 0>>)
    \/ \E t \in Tensors, key \in ViewKeys2 : A2_getitem(ViewHeap, t, key)
    \/ \E t \in Tensors, i, j \in {0, -1}, v \in WriteVals :
            A2_setitem(t, PyTuple(PyInt(i), PyInt(j)), v)
    \/ \E t \in Tensors, shape \in Shapes : A2_reshape(ViewHeap, t, shape)
    \/ \E t \in Tensors : A2_tolist(t)
    \/ \E t \in Tensors : A2_del(t)

SpecViews == Init /\ [][NextViews]_vars

\* ------------------------------------------------------------ element access
\* Elements of a Tensor and of its views are read and written at every index.
NextIndex ==
    \/ \E n \in {0, 1, 3} : A1_arange(ViewHeap, n)
    \/ \E t \in Tensors, k \in Indices : A1_getitem(ViewHeap, t, PyInt(k))
    \/ \E t \in Tensors : A1_getitem(ViewHeap, t, PySlice(Some(1), None, Some(2)))
    \/ \E t \in Tensors : A1_getitem(ViewHeap, t, PyStr)
    \/ \E t \in Tensors, k \in Indices, v \in WriteVals : A1_setitem(t, PyInt(k), v)
    \/ \E t \in Tensors, v \in WriteVals : A1_setitem(t, PyStr, v)
    \/ \E t \in Tensors : A1_tolist(t)
    \/ \E t \in Tensors : A1_item(t)
    \/ \E t \in Tensors : A1_len(t)
    \/ \E t \in Tensors : A1_del(t)
    \/ \E n \in {4} : A2_arange(ViewHeap, n)
    \/ \E t \in Tensors : A2_reshape(ViewHeap, t, <<2, 2>>)
    \/ \E t \in Tensors, i, j \in Indices2 : A2_getitem(ViewHeap, t, PyTuple(PyInt(i), PyInt(j)))
    \/ \E t \in Tensors : A2_getitem(ViewHeap, t, PyTuple(All, PySlice(Some(1), None, None)))
    \/ \E t \in Tensors : A2_getitem(ViewHeap, t, PyStr)
    \/ \E t \in Tensors, i, j \in Indices2, v \in WriteVals :
            A2_setitem(t, PyTuple(PyInt(i), PyInt(j)), v)
    \/ \E t \in Tensors, v \in WriteVals : A2_setitem(t, PyStr, v)
    \/ \E t \in Tensors : A2_tolist(t)
    \/ \E t \in Tensors : A2_len(t)
    \/ \E t \in Tensors : A2_del(t)

SpecIndex == Init /\ [][NextIndex]_vars

\* ------------------------------------------------------------ properties: views
\* the call `last' returned normally
Returned == last.err = "none" /\ last.raised = "none"

\* the physical cell of the element `key' (an int, or a tuple of two) of the Tensor t
CellOf(t, key) ==
    IF lib = "1d" THEN t.offset + Normalize(key.v, t.size) * t.stride
    ELSE t.offset[1] + Normalize(key.v[1].v, t.nrows) * t.stride[1]
         + t.offset[2] + Normalize(key.v[2].v, t.ncols) * t.stride[2]

\* every logical index of the Tensor u that translates to the cell p reads x in S
ReadsAt(S, u, p, x) ==
    IF lib = "1d"
    THEN \A j \in 0 .. u.size - 1 :
            u.offset + j * u.stride = p => T1_tensor_getitem(S, u, j) = Val(S, x)
    ELSE \A r \in 0 .. u.nrows - 1, c \in 0 .. u.ncols - 1 :
            u.offset[1] + r * u.stride[1] + u.offset[2] + c * u.stride[2] = p
                => T2_tensor_getitem(S, u, r, c) = Val(S, x)

\* tolist() of the Tensor u over the Storage structs S
ToList(S, u) == IF lib = "1d" THEN T1_Tensor_tolist(S, u) ELSE T2_Tensor_tolist(S, u)

C1_Step ==
    /\ (last'.op = "setitem" /\ last'.err = "none" /\ last'.raised = "none") =>
          LET v == last'.t
              x == last'.arg[2]
              p == CellOf(v, last'.arg[1])
          IN  /\ tensor' = tensor
              /\ \A u \in Tensors : u.storage = v.storage => ReadsAt(storage', u, p, x)
              /\ \A s \in Slots : /\ storage'[s].state = storage[s].state
                                  /\ storage'[s].data_size = storage[s].data_size
    /\ (last'.op \in {"getitem", "reshape"} /\ last'.res # NoTensor) =>
          /\ last'.res.storage = last'.t.storage
          /\ \A s \in Slots : /\ storage'[s].state = storage[s].state
                              /\ storage'[s].data = storage[s].data

\* C1: a successful t[key] = x through any Tensor makes every live Tensor over the same
\* Storage read x at each logical index that translates to the cell written (for
\* v = t[a:b] the element 0 of v is the element a of t, the element -1 is b - 1); a
\* slice, a one-element view and a reshape share the Storage of their Tensor and copy
\* no cell, and a write allocates nothing.
C1_Aliasing == [][C1_Step]_vars

\* t = arange(3), v = t[1:], then v[0] = x: t reads x at 1, which held 1
C1_Witness ==
    /\ lib = "1d" /\ last.op = "setitem" /\ Returned
    /\ last.arg[1].v = 0 /\ last.t.offset = 1 /\ last.t.stride = 1 /\ last.t.ref.ok
    /\ \E u \in Tensors :
          /\ u.storage = last.t.storage /\ u.offset = 0 /\ u.stride = 1 /\ u.size = 3
          /\ T1_tensor_getitem(storage, u, 1).val = last.arg[2]
          /\ last.arg[2] # 1

C3_Inv ==
    /\ \A t \in Tensors : storage[t.storage].state = "live"
    /\ \A s \in Slots : storage[s].frees <= 1

C3_Step ==
    /\ last'.op = "del" =>
          LET s == last'.t.storage
          IN  /\ storage[s].state = "live"
              /\ storage'[s].state \in {"live", "freed"}
              /\ storage'[s].state = "freed" <=>
                    (storage'[s].lost = 0 /\ ~ \E u \in BagToSet(tensor') : u.storage = s)
              /\ \A r \in Slots \ {s} : storage'[r] = storage[r]
              /\ \A u \in BagToSet(tensor') :
                    storage'[u.storage].state = "live" => ToList(storage', u) = ToList(storage, u)
    /\ last'.op # "del" =>
          \A s \in Slots : storage[s].state = "live" => storage'[s].state = "live"

C9_Reshape ==
    last.op = "reshape" =>
        LET t == last.t
            nrows == last.arg[1]
            ncols == last.arg[2]
            res == last.res
        IN  /\ (res # NoTensor) <=> (nrows * ncols = t.size)
            /\ (res = NoTensor) <=> (last.raised = "ValueError")
            /\ res # NoTensor =>
                  /\ res \in Tensors
                  /\ res.storage = t.storage /\ res.offset = t.offset
                  /\ res.stride = <<ncols, 1>>
                  /\ res.nrows = nrows /\ res.ncols = ncols /\ res.size = t.size
                  /\ Contiguous(t) =>
                        \A r \in 0 .. nrows - 1, c \in 0 .. ncols - 1 :
                            LET k == r * ncols + c
                            IN  T2_tensor_getitem(storage, res, r, c)
                                    = T2_tensor_getitem(storage, t, k \div t.ncols, k % t.ncols)
                  /\ (/\ t.offset = <<0, 0>> /\ t.nrows = 1 /\ t.stride = <<t.ncols, 1>>
                      /\ storage[t.storage].data = [i \in 1 .. t.size |-> i - 1]) =>
                        \A r \in 1 .. nrows, c \in 1 .. ncols :
                            ToList(storage, res)[r][c] = (r - 1) * ncols + c - 1

\* arange(4).reshape((2, 2)) was made and lists 0 .. 3 in two rows
C9_Witness ==
    /\ last.op = "reshape" /\ last.res # NoTensor
    /\ last.t.nrows = 1 /\ last.t.ncols = 4 /\ last.res.nrows = 2
    /\ ToList(storage, last.res) = << <<0, 1>>, <<2, 3>> >>

\* ------------------------------------------------------------ the heap
\* Tensors are allocated, viewed, added, multiplied and collected; no cell is written
\* after its Tensor is made.
NextHeap ==
    \/ \E n \in {1, 3} : A1_arange(Heap, n)
    \/ \E n \in {1} : A1_zeros(Heap, n)
    \/ \E junk \in {<<1>>} : A1_empty(Heap, junk)
    \/ \E data \in {<<1, 1>>} : A1_tensor(Heap, data)
    \/ \E t \in Tensors : A1_getitem(Heap, t, PyInt(0))
    \/ \E t \in Tensors : A1_getitem(Heap, t, PySlice(Some(1), None, None))
    \/ \E t \in Tensors, v \in Scalars : A1_add(Heap, t, PyInt(v))
    \/ \E t, u \in Tensors : A1_add(Heap, t, PyObj(u))
    \/ \E t \in Tensors : A1_add(Heap, t, PyStr)
    \/ \E t \in Tensors : A1_del(t)
    \/ \E n \in {2} : A2_arange(Heap, n)
    \/ \E junk \in {<<1>>} : A2_empty(Heap, <<1, 1>>, junk)
    \/ \E data \in {<< <<1>>, <<1>> >>} : A2_tensor(Heap, data, <<0, 0>>)
    \/ \E t \in Tensors : A2_getitem(Heap, t, PyTuple(All, PySlice(Some(1), None, None)))
    \/ \E t \in Tensors, shape \in {<<2, 1>>, <<2, 2>>} : A2_reshape(Heap, t, shape)
    \/ \E t \in Tensors, v \in Scalars : A2_add(Heap, t, PyInt(v))
    \/ \E t, u \in Tensors : A2_add(Heap, t, PyObj(u))
    \/ \E t \in Tensors : A2_add(Heap, t, PyStr)
    \/ \E t \in Tensors, v \in Scalars : A2_mul(Heap, t, PyInt(v))
    \/ \E t, u \in Tensors : A2_mul(Heap, t, PyObj(u))
    \/ \E t \in Tensors : A2_mul(Heap, t, PyStr)
    \/ \E t, u \in Tensors : A2_dot(Heap, t, u)
    \/ \E t \in Tensors : A2_del(t)

SpecHeap == Init /\ [][NextHeap]_vars

\* ------------------------------------------------------------ properties: the heap
\* the number of live Tensor objects whose struct points to the Storage s
Holders(s) ==
    LET on == {t \in Tensors : t.storage = s}
    IN  BagCardinality([t \in on |-> CopiesIn(t, tensor)])

\* the calls that allocate a Storage, and those that make a view of one
Allocating == {"arange", "zeros", "empty", "tensor", "add", "mul", "dot"}
Viewing == {"getitem", "reshape"}

C2_Inv ==
    /\ \A s \in Slots : storage[s].ref_count = Holders(s) + storage[s].lost
    /\ (last.op \in Allocating /\ last.res # NoTensor) => storage[last.res.storage].ref_count = 1

C2_Step ==
    /\ (last'.op \in Viewing /\ last'.res # NoTensor) =>
          LET s == last'.t.storage
          IN  /\ storage'[s].ref_count = storage[s].ref_count + 1
              /\ \A r \in Slots \ {s} : storage'[r].ref_count = storage[r].ref_count
    /\ last'.op = "del" =>
          LET s == last'.t.storage
          IN  /\ IF storage'[s].lost = storage[s].lost
                 THEN storage'[s].ref_count = storage[s].ref_count - 1
                 ELSE storage'[s].ref_count = storage[s].ref_count
              /\ \A r \in Slots \ {s} : storage'[r].ref_count = storage[r].ref_count

Elements(u) ==
    IF lib = "1d"
    THEN [i \in 1 .. u.size |-> storage[u.storage].data[u.offset + (i - 1) * u.stride + 1]]
    ELSE [i \in 1 .. u.nrows * u.ncols |->
            storage[u.storage].data[u.offset[1] + ((i - 1) \div u.ncols) * u.stride[1]
                                    + u.offset[2] + ((i - 1) % u.ncols) * u.stride[2] + 1]]

\* the Tensor u is alone on a Storage of its own, row-major from the first cell
Fresh(u) ==
    /\ u \in Tensors
    /\ storage[u.storage].state = "live" /\ storage[u.storage].ref_count = 1
    /\ storage[u.storage].data_size = u.size
    /\ \A w \in Tensors \ {u} : w.storage # u.storage
    /\ IF lib = "1d" THEN u.offset = 0 /\ u.stride = 1
       ELSE u.offset = <<0, 0>> /\ u.stride = <<u.ncols, 1>> /\ u.size = u.nrows * u.ncols

\* C7: t1 + t2 of two Tensors returns a Tensor if and only if their sizes are equal or
\* one of them has size 1, and raises ValueError otherwise; with equal sizes element i
\* of the result is t1[i] + t2[i], with one operand of size 1 (on either side) the
\* result has the size of the other and each element is the other's plus that one
\* value; the result is alone on a new Storage (ref_count 1, offset 0, unit stride)
\* that is the Storage of neither operand, and the operands keep their cells.
C7_AddShape ==
    (last.op = "add" /\ last.arg.kind = "Tensor") =>
        LET t1 == last.t
            t2 == last.arg.t
            res == last.res
            a == Elements(t1)
            b == Elements(t2)
        IN  /\ (res # NoTensor) <=> (t1.size = t2.size \/ t1.size = 1 \/ t2.size = 1)
            /\ (res = NoTensor) <=> (last.raised = "ValueError")
            /\ res # NoTensor =>
                  /\ Fresh(res)
                  /\ res.storage \notin {t1.storage, t2.storage}
                  /\ IF t1.size = t2.size
                     THEN Elements(res) = [i \in 1 .. t1.size |-> a[i] + b[i]]
                     ELSE IF t2.size = 1
                     THEN Elements(res) = [i \in 1 .. t1.size |-> a[i] + b[1]]
                     ELSE Elements(res) = [i \in 1 .. t2.size |-> a[1] + b[i]]

\* t[1] + t of a Tensor t that lists 0, 1, 2: the one element is added to each of t
C7_Witness ==
    /\ last.op = "add" /\ last.arg.kind = "Tensor" /\ lib = "1d"
    /\ last.t.size = 1 /\ last.arg.t.size = 3 /\ last.res # NoTensor
    /\ Elements(last.t) = <<1>> /\ Elements(last.res) = <<1, 2, 3>>

RECURSIVE DotSum(_, _, _, _, _)
\* the sum over k < n of t1[r, k] * t2[k, c], read from the Storages
DotSum(t1, t2, r, c, n) ==
    IF n = 0 THEN 0
    ELSE DotSum(t1, t2, r, c, n - 1)
         + Elements(t1)[r * t1.ncols + n] * Elements(t2)[(n - 1) * t2.ncols + c + 1]

\* C8: t1.dot(t2) returns a Tensor if and only if t1.ncols = t2.nrows and raises
\* ValueError, making no Tensor, otherwise; the Tensor has the shape
\* (t1.nrows, t2.ncols), is alone on a new Storage, and its element (r, c) is the sum
\* over k of t1[r, k] * t2[k, c].
C8_DotShape ==
    last.op = "dot" =>
        LET t1 == last.t
            t2 == last.arg
            res == last.res
        IN  /\ (res # NoTensor) <=> (t1.ncols = t2.nrows)
            /\ (res = NoTensor) <=> (last.raised = "ValueError")
            /\ res # NoTensor =>
                  /\ Fresh(res)
                  /\ res.nrows = t1.nrows /\ res.ncols = t2.ncols
                  /\ res.storage \notin {t1.storage, t2.storage}
                  /\ \A r \in 0 .. res.nrows - 1, c \in 0 .. res.ncols - 1 :
                        Elements(res)[r * res.ncols + c + 1] = DotSum(t1, t2, r, c, t1.ncols)

\* a product of a (2, 1) and a (1, 2) Tensor with a nonzero element
C8_Witness ==
    /\ last.op = "dot" /\ last.res # NoTensor
    /\ last.t.nrows = 2 /\ last.t.ncols = 1 /\ last.res.ncols = 2
    /\ Elements(last.res) = <<0, 0, 0, 1>>

\* ------------------------------------------------------------ slices
\* the bounds and the steps of slices: unspecified, or any int up to MaxKey and MaxStep
\* in magnitude (a step is never 0)
SliceBounds == {None} \cup {Some(k) : k \in (-MaxKey) .. MaxKey}
SliceSteps == {None} \cup {Some(k) : k \in 1 .. MaxStep} \cup {Some(-k) : k \in 1 .. MaxStep}
SliceKeys == {PySlice(a, b, c) : a, b \in SliceBounds, c \in SliceSteps}
\* the slices with a positive step that are taken of arange(n): each bound unspecified,
\* within the size, the size itself, or beyond it, on either side of 0
ChainBounds == {None} \cup {Some(k) : k \in {-MaxKey, -MaxLen, -1, 0, 1, 2, MaxLen, MaxKey}}
ChainKeys == {PySlice(a, b, c) : a, b \in ChainBounds, c \in {None, Some(2), Some(MaxStep)}}
\* the slices taken of each axis of a 2-D Tensor
AxisKeys == {All, PySlice(Some(1), None, None), PySlice(None, Some(-1), None),
             PySlice(None, None, Some(2)), PySlice(Some(-1), Some(MaxKey), Some(2))}
ChainKeys2 == {PyTuple(k0, k1) : k0, k1 \in AxisKeys}

\* arange(n) is sliced, its slices are sliced again, and Tensors are collected
NextSlice ==
    \/ \E n \in 0 .. MaxLen : A1_arange(ViewHeap, n)
    \/ \E t \in Tensors, key \in ChainKeys : A1_getitem(ViewHeap, t, key)
    \/ \E t \in Tensors : A1_del(t)
    \/ \E n \in {4} : A2_arange(ViewHeap, n)
    \/ \E t \in Tensors : A2_reshape(ViewHeap, t, <<2, 2>>)
    \/ \E t \in Tensors, key \in ChainKeys2 : A2_getitem(ViewHeap, t, key)
    \/ \E t \in Tensors : A2_del(t)

SpecSlice == Init /\ [][NextSlice]_vars

\* ------------------------------------------------------------ slices of slices
\* the slices taken where the fields of every slice of the Tensors made are looked at:
\* forward and backward ones, of Tensors and of their slices
MetaKeys == {PySlice(Some(1), None, Some(2)), PySlice(None, Some(-1), None),
             PySlice(Some(MaxLen), Some(0), Some(-1)), PySlice(Some(-1), None, Some(-2))}
MetaKeys2 == {PyTuple(All, PySlice(Some(1), None, None)),
              PyTuple(PySlice(None, None, Some(2)), All),
              PyTuple(PySlice(Some(2), Some(0), Some(-1)), PySlice(None, Some(-1), None))}

NextMeta ==
    \/ \E n \in {0, 1, MaxLen} : A1_arange(ViewHeap, n)
    \/ \E t \in Tensors, key \in MetaKeys : A1_getitem(ViewHeap, t, key)
    \/ \E t \in Tensors : A1_del(t)
    \/ \E n \in {4} : A2_arange(ViewHeap, n)
    \/ \E t \in Tensors : A2_reshape(ViewHeap, t, <<2, 2>>)
    \/ \E t \in Tensors, key \in MetaKeys2 : A2_getitem(ViewHeap, t, key)
    \/ \E t \in Tensors : A2_del(t)

SpecMeta == Init /\ [][NextMeta]_vars

\* ------------------------------------------------------------ properties: slices
\* the call `last' took a slice (of both axes, in tensor2d)
SliceTaken ==
    /\ last.op = "getitem"
    /\ last.arg \in {[kind |-> "slice"], PyTuple([kind |-> "slice"], [kind |-> "slice"])}

\* C4: a Tensor made of arange(n) by one or more slices with steps >= 1, whatever their
\* bounds (unspecified, negative, or beyond the size on either side), lists exactly
\* what the same slices of the Python list 0 .. n-1 (of the list of rows, in tensor2d)
\* list, and none of these slices raises; an empty result is a Tensor of size 0, and a
\* slice of an empty Tensor is empty again.
C4_SliceReference ==
    /\ \A t \in Tensors : t.ref.ok => ToList(storage, t) = t.ref.list
    /\ SliceTaken => /\ Returned /\ last.res \in Tensors
                     /\ last.t.size = 0 => last.res.size = 0

\* arange(n)[a:b:2][c:d:2] with an element left: its stride is 4
C4_Witness ==
    /\ lib = "1d" /\ SliceTaken /\ last.res.ref.ok
    /\ last.res.stride = 4 /\ last.res.size = 1 /\ last.t.stride = 2
    /\ ToList(storage, last.res) = <<1>>

\* the least integer that is at least a / b, for b # 0
CeilOf(a, b) ==
    CHOOSE q \in (-(Abs(a) + 1)) .. (Abs(a) + 1) :
        IF b > 0 THEN q * b >= a /\ (q - 1) * b < a ELSE q * b <= a /\ (q - 1) * b > a

\* a bound of a slice of an axis of `size' elements: the size is added to a negative
\* bound, and the sum is clamped into [0, size]
Adjusted(ix, size) ==
    LET n == IF ix < 0 THEN ix + size ELSE ix
    IN  IF n < 0 THEN 0 ELSE IF n > size THEN size ELSE n

\* the size, the offset and the stride of the slice `key' of an axis of `size' elements
\* that starts at `offset' with the stride `stride'
AxisSlice(key, size, offset, stride) ==
    LET start == Adjusted(IF key.start = None THEN 0 ELSE key.start[1], size)
        stop  == Adjusted(IF key.stop = None THEN size ELSE key.stop[1], size)
        step  == IF key.step = None THEN 1 ELSE key.step[1]
        len   == CeilOf(stop - start, step)
    IN  [size |-> IF len > 0 THEN len ELSE 0,
         offset |-> offset + start * stride,
         stride |-> stride * step]

\* the call r returned the slice `key' of the 1-D Tensor t
IsSlice1(r, t, key) ==
    LET ax == AxisSlice(key, t.size, t.offset, t.stride)
    IN  /\ r.err = "none" /\ r.raised = "none" /\ r.t # NoTensor
        /\ r.t.storage = t.storage
        /\ r.t.size = ax.size /\ r.t.offset = ax.offset /\ r.t.stride = ax.stride

\* the call r returned the slice `key' (of rows, of columns) of the 2-D Tensor t
IsSlice2(r, t, key) ==
    LET rows == AxisSlice(key.v[1], t.nrows, t.offset[1], t.stride[1])
        cols == AxisSlice(key.v[2], t.ncols, t.offset[2], t.stride[2])
    IN  /\ r.err = "none" /\ r.raised = "none" /\ r.t # NoTensor
        /\ r.t.storage = t.storage
        /\ r.t.nrows = rows.size /\ r.t.ncols = cols.size /\ r.t.size = rows.size * cols.size
        /\ r.t.offset = <<rows.offset, cols.offset>>
        /\ r.t.stride = <<rows.stride, cols.stride>>

\* the slices of one axis of a 2-D Tensor that the property is checked for
WideAxisKeys ==
    {PySlice(a, b, c) : a, b \in {None} \cup {Some(k) : k \in (-MaxStep) .. MaxStep},
                        c \in {None, Some(1), Some(2), Some(-1), Some(-2)}}

\* C5: the slice t[start:stop:step] of a Tensor t, for every step but 0, is a view over
\* the Storage of t whose size is max(0, ceil((stop - start) / step)), whose offset is
\* t.offset + start * t.stride and whose stride is t.stride * step, where the size of
\* the axis was added to a negative start or stop and each was then clamped into
\* [0, size]; t is the Tensor sliced, a slice itself or not.  In tensor2d this holds
\* of rows and columns apart, with nrows and ncols for the sizes, and the size of the
\* view is the product.  An unspecified start is 0, stop the size of the axis, step 1.
C5_SliceMetadata ==
    /\ lib = "1d" =>
          /\ \A t \in Tensors, key \in SliceKeys :
                IsSlice1(T1_Tensor_getitem(storage, t, key), t, key)
          /\ SliceTaken =>
                /\ last.res \in Tensors
                /\ \E key \in SliceKeys :
                      IsSlice1([err |-> last.err, raised |-> last.raised, t |-> last.res],
                               last.t, key)
    /\ lib = "2d" =>
          /\ \A t \in Tensors, k0 \in WideAxisKeys, k1 \in AxisKeys :
                /\ IsSlice2(T2_Tensor_getitem(storage, t, PyTuple(k0, k1)), t, PyTuple(k0, k1))
                /\ IsSlice2(T2_Tensor_getitem(storage, t, PyTuple(k1, k0)), t, PyTuple(k1, k0))
          /\ SliceTaken =>
                /\ last.res \in Tensors
                /\ \E key \in MetaKeys2 :
                      IsSlice2([err |-> last.err, raised |-> last.raised, t |-> last.res],
                               last.t, key)

\* a slice with a negative step of a slice with step 2: the stride is -2, the offset
\* that of the last element
C5_Witness ==
    /\ lib = "1d" /\ SliceTaken
    /\ last.t.stride = 2 /\ last.t.offset = 1
    /\ last.res.stride = -2 /\ last.res.size = 1 /\ last.res.offset = 1 + 2 * last.t.size

\* ------------------------------------------------------------ properties: element access
\* the index i of an axis of s elements, counted from the end when negative
Wrapped(i, s) == IF i < 0 THEN i + s ELSE i
\* i is an index of an axis of s elements
Inside(i, s) == -s <= i /\ i < s

\* the value of the cell p (counted from 0) of the Storage of the Tensor t
CellValue(t, p) == storage[t.storage].data[p + 1]

\* the Storage structs, the cell p of the Storage of t holding v
Written(t, p, v) == [storage EXCEPT ![t.storage].data[p + 1] = v]

\* get and set of libtensor1d at the index i of the Tensor t
C6_Access1(t, i) ==
    LET g == T1_tensor_getitem(storage, t, i)
        w == T1_tensor_setitem(storage, t, i, MaxVal)
        p == t.offset + Wrapped(i, t.size) * t.stride
    IN  IF Inside(i, t.size)
        THEN /\ g = Val(storage, CellValue(t, p))
             /\ w.err = "none" /\ w.S = Written(t, p, MaxVal)
             /\ i < 0 => /\ g = T1_tensor_getitem(storage, t, i + t.size)
                         /\ w = T1_tensor_setitem(storage, t, i + t.size, MaxVal)
             /\ LET v == T1_Tensor_getitem(storage, t, PyInt(i))
                IN  /\ v.err = "none" /\ v.raised = "none" /\ v.t # NoTensor
                    /\ T1_Tensor_item(v.S, v.t) = Val(v.S, g.val)
        ELSE /\ g.err = "IndexError" /\ g.S = storage
             /\ w.err = "IndexError" /\ w.S = storage

\* get and set of libtensor2d at the index (i, j) of the Tensor t
C6_Access2(t, i, j) ==
    LET g == T2_tensor_getitem(storage, t, i, j)
        w == T2_tensor_setitem(storage, t, i, j, MaxVal)
        p == t.offset[1] + Wrapped(i, t.nrows) * t.stride[1]
             + t.offset[2] + Wrapped(j, t.ncols) * t.stride[2]
    IN  IF Inside(i, t.nrows) /\ Inside(j, t.ncols)
        THEN /\ g = Val(storage, CellValue(t, p))
             /\ w.err = "none" /\ w.S = Written(t, p, MaxVal)
             /\ g = T2_tensor_getitem(storage, t, Wrapped(i, t.nrows), Wrapped(j, t.ncols))
             /\ w = T2_tensor_setitem(storage, t, Wrapped(i, t.nrows), Wrapped(j, t.ncols), MaxVal)
        ELSE /\ g.err = "IndexError" /\ g.S = storage
             /\ w.err = "IndexError" /\ w.S = storage

\* the Tensor t is arange(n) as it was made
IsArange(t) ==
    /\ lib = "1d" /\ t.offset = 0 /\ t.stride = 1 /\ t.size = storage[t.storage].data_size
    /\ storage[t.storage].data = [i \in 1 .. t.size |-> i - 1]

\* what the last call, t[key] or t[key] = value with an int (a tuple of ints) for the
\* key, returned
C6_Last ==
    /\ (last.op = "getitem" /\ last.arg.kind = "int") =>
          LET t == last.t
              i == last.arg.v
          IN  IF Inside(i, t.size)
              THEN /\ Returned /\ last.res \in Tensors
                   /\ T1_Tensor_item(storage, last.res)
                        = Val(storage, CellValue(t, t.offset + Wrapped(i, t.size) * t.stride))
                   /\ (IsArange(t) /\ i < 0) =>
                        T1_Tensor_item(storage, last.res).val = t.size - (-i)
              ELSE last.err = "IndexError" /\ last.res = NoTensor
    /\ (last.op = "getitem" /\ last.arg.kind = "tuple" /\ last.arg.v[1].kind = "int") =>
          LET t == last.t
              i == last.arg.v[1].v
              j == last.arg.v[2].v
          IN  IF Inside(i, t.nrows) /\ Inside(j, t.ncols)
              THEN /\ Returned
                   /\ last.val = CellValue(t, t.offset[1] + Wrapped(i, t.nrows) * t.stride[1]
                                              + t.offset[2] + Wrapped(j, t.ncols) * t.stride[2])
              ELSE last.err = "IndexError"
    /\ (last.op = "setitem" /\ last.arg[1].kind = "int") =>
          LET t == last.t
              i == last.arg[1].v
          IN  IF Inside(i, t.size)
              THEN /\ Returned
                   /\ CellValue(t, t.offset + Wrapped(i, t.size) * t.stride) = last.arg[2]
              ELSE last.err = "IndexError"
    /\ (last.op = "setitem" /\ last.arg[1].kind = "tuple") =>
          LET t == last.t
              i == last.arg[1].v[1].v
              j == last.arg[1].v[2].v
          IN  IF Inside(i, t.nrows) /\ Inside(j, t.ncols)
              THEN /\ Returned
                   /\ CellValue(t, t.offset[1] + Wrapped(i, t.nrows) * t.stride[1]
                                   + t.offset[2] + Wrapped(j, t.ncols) * t.stride[2]) = last.arg[2]
              ELSE last.err = "IndexError"

C6_Inv ==
    /\ lib = "1d" => \A t \in Tensors, i \in Indices : C6_Access1(t, i)
    /\ lib = "2d" => \A t \in Tensors, i, j \in Indices2 : C6_Access2(t, i, j)
    /\ C6_Last

C6_Step ==
    /\ (last'.op \in {"getitem", "setitem"} /\ last'.err = "IndexError") => storage' = storage
    /\ (last'.op = "setitem" /\ last'.err = "none" /\ last'.raised = "none") =>
          \E s \in Slots : \E p \in 1 .. storage[s].data_size :
              storage' = [storage EXCEPT ![s].data[p] = last'.arg[2]]

\* C6: get and set at an index i of a Tensor of s elements address the cell
\* offset + i * stride when 0 <= i < s and the element i + s when -s <= i < 0 (so the
\* element -k of arange(n) is n - k), and fail with IndexError, no cell read or
\* written, at every other index; in libtensor2d the same holds of the row index with
\* nrows and of the column index with ncols.  For every index i of a 1-D Tensor t,
\* t[i].item() is the element get returns.
C6_ElementAccess == []C6_Inv /\ [][C6_Step]_vars

\* t[-1] of arange(3): the view reads 2, the last element
C6_Witness ==
    /\ lib = "1d" /\ last.op = "getitem" /\ last.arg.kind = "int" /\ last.arg.v = -1
    /\ IsArange(last.t) /\ last.t.size = 3
    /\ Returned /\ T1_Tensor_item(storage, last.res).val = 2

\* ------------------------------------------------------------ construction
\* the values of the lists passed to tensor(): small ones, and the least integer that
\* no C float holds
ListValues == {0, MaxVal, TwoTo24 + 1}
\* the flat lists, and the lists of rows of one length
FlatLists == UNION {[1 .. n -> ListValues] : n \in 0 .. MaxList + 1}
RowLists == UNION {[1 .. r -> [1 .. c -> ListValues]] : r \in 1 .. MaxList, c \in 0 .. MaxList}
\* what tensor_empty leaves in the cells of a Tensor of the shape of `data'
Junk(data) == [i \in 1 .. Len(data) * Len(data[1]) |-> -1]

\* Tensors are made of lists, listed, measured and collected
NextRoundTrip ==
    \/ \E data \in FlatLists : A1_tensor(ViewHeap, data)
    \/ \E t \in Tensors : A1_tolist(t)
    \/ \E t \in Tensors : A1_len(t)
    \/ \E t \in Tensors : A1_del(t)
    \/ \E data \in RowLists : A2_tensor(ViewHeap, data, Junk(data))
    \/ \E t \in Tensors : A2_tolist(t)
    \/ \E t \in Tensors : A2_len(t)
    \/ \E t \in Tensors : A2_del(t)

SpecRoundTrip == Init /\ [][NextRoundTrip]_vars

\* ------------------------------------------------------------ properties: construction
\* a C float holds the integer v exactly
Exact(v) == Abs(v) <= TwoTo24 \/ Abs(v) % Ulp(Abs(v), 1) = 0

\* the number of elements of a list (of a list of rows of one length)
Count(data) == IF lib = "1d" THEN Len(data) ELSE Len(data) * Len(data[1])

\* the list `got' has the shape of the list `data', and the elements of `data' that a C
\* float holds exactly
SameExact(got, data) ==
    IF lib = "1d"
    THEN /\ Len(got) = Len(data)
         /\ \A i \in 1 .. Len(data) : Exact(data[i]) => got[i] = data[i]
    ELSE /\ Len(got) = Len(data)
         /\ \A i \in 1 .. Len(data) :
               /\ Len(got[i]) = Len(data[i])
               /\ \A j \in 1 .. Len(data[i]) : Exact(data[i][j]) => got[i][j] = data[i][j]

ZeroKeys == {PySlice(None, None, Some(0)), PySlice(Some(1), Some(-1), Some(0)),
             PySlice(Some(1), None, None), PySlice(None, None, Some(2))}
ZeroKeys2 == {PyTuple(All, PySlice(None, None, Some(0))), PyTuple(PySlice(None, None, Some(0)), All),
              PyTuple(PySlice(Some(0), Some(1), Some(0)), PySlice(Some(1), None, Some(0))),
              PyTuple(All, PySlice(Some(1), None, None))}

NextGuard ==
    \/ \E n \in {0, 1, 3} : A1_arange(ViewHeap, n)
    \/ \E t \in Tensors, k \in {0, -1} : A1_getitem(ViewHeap, t, PyInt(k))
    \/ \E t \in Tensors, key \in ZeroKeys : A1_getitem(ViewHeap, t, key)
    \/ \E t \in Tensors : A1_item(t)
    \/ \E t \in Tensors : A1_del(t)
    \/ \E n \in {4} : A2_arange(ViewHeap, n)
    \/ \E t \in Tensors : A2_reshape(ViewHeap, t, <<2, 2>>)
    \/ \E t \in Tensors, key \in ZeroKeys2 : A2_getitem(ViewHeap, t, key)
    \/ \E t \in Tensors : A2_del(t)

SpecGuard == Init /\ [][NextGuard]_vars

\* ------------------------------------------------------------ properties: guards
\* the key `arg' of a __getitem__ is a slice of step 0, or a tuple with one
ZeroStep(arg) ==
    \/ arg.kind = "slice" /\ "step" \in DOMAIN arg
    \/ arg.kind = "tuple" /\ \E k \in 1 .. 2 : arg.v[k].kind = "slice" /\ "step" \in DOMAIN arg.v[k]

\* the ref_count of every Storage is what it was
SameCounts == \A s \in Slots : storage'[s].ref_count = storage[s].ref_count

C11_Step ==
    (last'.op = "getitem" /\ ZeroStep(last'.arg)) =>
        /\ last'.err = "ValueError" \/ last'.raised = "ValueError"
        /\ tensor' = tensor
        /\ SameCounts

\* C11: a slice whose step is 0 (on any axis in the 2-D engine) fails with ValueError
\* for every Tensor and every start and stop, makes no view and leaves the ref_count
\* of every Storage as it was.
C11_ZeroStepRejected == [][C11_Step]_vars

\* C12: item() returns the one element of a Tensor of size 1, and fails with ValueError
\* for a Tensor of any other size (0, or more than 1).
C12_ItemGuard ==
    last.op = "item" =>
        IF last.t.size = 1
        THEN Returned /\ last.val = CellValue(last.t, last.t.offset)
        ELSE last.err = "ValueError" \/ last.raised = "ValueError"

\* ------------------------------------------------------------ addressing
\* Tensors are made by every constructor and viewed by slices of either direction, by
\* one-element views and by reshape.
BoundKeys == {PySlice(Some(1), None, Some(2)), PySlice(None, Some(-1), None),
              PySlice(Some(MaxKey), None, None), PySlice(Some(MaxLen), Some(0), Some(-1)),
              PySlice(Some(1), Some(0), Some(-2))}
BoundKeys2 == {PyTuple(All, PySlice(Some(1), None, None)),
               PyTuple(PySlice(None, None, Some(2)), All),
               PyTuple(All, PySlice(Some(MaxLen), Some(0), Some(-1))),
               PyTuple(PySlice(Some(MaxLen), Some(0), Some(-1)), All)}

NextBounds ==
    \/ \E n \in {0, 1, MaxLen - 1} : A1_arange(ViewHeap, n)
    \/ \E n \in {2} : A1_zeros(ViewHeap, n)
    \/ \E junk \in {<<MaxVal>>} : A1_empty(ViewHeap, junk)
    \/ \E data \in {<<MaxVal, 1>>} : A1_tensor(ViewHeap, data)
    \/ \E t \in Tensors, k \in {0, -1} : A1_getitem(ViewHeap, t, PyInt(k))
    \/ \E t \in Tensors, key \in BoundKeys : A1_getitem(ViewHeap, t, key)
    \/ \E t \in Tensors : A1_del(t)
    \/ \E n \in {0, 4} : A2_arange(ViewHeap, n)
    \/ \E junk \in {<<0, MaxVal>>} : A2_empty(ViewHeap, <<2, 1>>, junk)
    \/ \E data \in {<< <<MaxVal, 1>> >>} : A2_tensor(ViewHeap, data, <<0, 0>>)
    \/ \E t \in Tensors, shape \in Shapes : A2_reshape(ViewHeap, t, shape)
    \/ \E t \in Tensors, key \in BoundKeys2 : A2_getitem(ViewHeap, t, key)
    \/ \E t \in Tensors : A2_del(t)

SpecBounds == Init /\ [][NextBounds]_vars

\* ------------------------------------------------------------ properties: addressing
\* every element of the Tensor t is a cell of its Storage, and no offset is negative
InBounds(t) ==
    LET n == storage[t.storage].data_size
    IN  IF lib = "1d"
        THEN /\ t.size >= 0 /\ t.offset >= 0
             /\ \A i \in 0 .. t.size - 1 :
                    0 <= t.offset + i * t.stride /\ t.offset + i * t.stride < n
        ELSE /\ t.size >= 0
             /\ t.offset[1] >= 0 /\ t.offset[2] >= 0
             /\ \A r \in 0 .. t.nrows - 1, c \in 0 .. t.ncols - 1 :
                    LET p == t.offset[1] + r * t.stride[1] + t.offset[2] + c * t.stride[2]
                    IN  0 <= p /\ p < n

\* C13: every Tensor made by empty, zeros, arange or tensor, and every view got of one
\* by slices of any start, stop and step other than 0, by one-element views and by
\* reshape, addresses cells of its Storage alone: 0 <= offset + i * stride < data_size
\* for every 0 <= i < size (per row and column in the 2-D engine), with size >= 0 and
\* offset >= 0.
C13_InBounds == \A t \in Tensors : InBounds(t)

\* ------------------------------------------------------------ failing calls
\* Calls that fail (an index out of range, shapes that do not agree, a key or an operand
\* of another type) and calls that succeed are made on Tensors and their views.
NextFrame ==
    \/ \E n \in {1, 3} : A1_arange(Heap, n)
    \/ \E t \in Tensors, k \in {0, 3, -4} : A1_getitem(Heap, t, PyInt(k))
    \/ \E t \in Tensors : A1_getitem(Heap, t, PySlice(Some(1), None, None))
    \/ \E t \in Tensors : A1_getitem(Heap, t, PyStr)
    \/ \E t \in Tensors, k \in {3, -4}, v \in WriteVals : A1_setitem(t, PyInt(k), v)
    \/ \E t \in Tensors, v \in WriteVals : A1_setitem(t, PyStr, v)
    \/ \E t \in Tensors, v \in Scalars : A1_add(Heap, t, PyInt(v))
    \/ \E t, u \in Tensors : A1_add(Heap, t, PyObj(u))
    \/ \E t \in Tensors : A1_add(Heap, t, PyStr)
    \/ \E t \in Tensors : A1_tolist(t)
    \/ \E t \in Tensors : A1_del(t)
    \/ \E n \in {2} : A2_arange(Heap, n)
    \/ \E t \in Tensors, shape \in {<<2, 1>>, <<2, 2>>} : A2_reshape(Heap, t, shape)
    \/ \E t \in Tensors, i \in {0, 2} : A2_getitem(Heap, t, PyTuple(PyInt(i), PyInt(0)))
    \/ \E t \in Tensors : A2_getitem(Heap, t, PyTuple(All, PySlice(Some(1), None, None)))
    \/ \E t \in Tensors : A2_getitem(Heap, t, PyStr)
    \/ \E t \in Tensors, i \in {0, 2}, v \in WriteVals :
            A2_setitem(t, PyTuple(PyInt(i), PyInt(2)), v)
    \/ \E t \in Tensors, v \in WriteVals : A2_setitem(t, PyStr, v)
    \/ \E t \in Tensors, v \in Scalars : A2_add(Heap, t, PyInt(v))
    \/ \E t, u \in Tensors : A2_add(Heap, t, PyObj(u))
    \/ \E t \in Tensors : A2_add(Heap, t, PyStr)
    \/ \E t \in Tensors, v \in Scalars : A2_mul(Heap, t, PyInt(v))
    \/ \E t, u \in Tensors : A2_mul(Heap, t, PyObj(u))
    \/ \E t \in Tensors : A2_mul(Heap, t, PyStr)
    \/ \E t, u \in Tensors : A2_dot(Heap, t, u)
    \/ \E t \in Tensors : A2_tolist(t)
    \/ \E t \in Tensors : A2_del(t)

SpecFrame == Init /\ [][NextFrame]_vars

\* ------------------------------------------------------------ properties: failing calls
\* the call that made the step failed: in the library, or with a Python exception
Failed == last'.err # "none" \/ last'.raised # "none"

\* the Storage buffers that were allocated keep their cells; the ref_count of the Storage
\* `shared' is one more, every other ref_count is what it was
Untouched(shared) ==
    \A s \in Slots : storage[s].state = "live" =>
        /\ storage'[s].state = "live"
        /\ storage'[s].data = storage[s].data
        /\ storage'[s].data_size = storage[s].data_size
        /\ storage'[s].ref_count = storage[s].ref_count + (IF s = shared THEN 1 ELSE 0)

C14_Step ==
    /\ (last'.op \in {"getitem", "setitem", "add", "mul", "dot", "reshape"} /\ Failed) =>
          /\ last'.err \in {"none", "IndexError"}
          /\ last'.raised \in {"none", "ValueError", "TypeError"}
          /\ storage' = storage
          /\ tensor' = tensor
    /\ (last'.op \in {"tolist", "getitem"} /\ ~Failed /\ last'.res = NoTensor) =>
          storage' = storage /\ tensor' = tensor
    /\ (last'.op \in {"add", "mul", "dot"} /\ ~Failed) =>
          /\ tensor' = tensor (+) SetToBag({last'.res})
          /\ storage[last'.res.storage].state # "live"
          /\ Untouched(0)
    /\ (last'.op \in {"getitem", "reshape"} /\ ~Failed /\ last'.res # NoTensor) =>
          /\ tensor' = tensor (+) SetToBag({last'.res})
          /\ Untouched(last'.t.storage)

\* C14: a call that fails (IndexError of get and set, ValueError of add, mul, dot and
\* reshape on shapes that do not agree, TypeError for a key or an operand of another
\* type) leaves the cells and the ref_count of every Storage and the fields of every
\* Tensor as they were and makes no Tensor, and so does a read; a successful add, mul
\* (with a Tensor or a scalar), dot, slice and reshape leaves the cells and the fields
\* of its operands as they were, a slice and a reshape adding one to the ref_count of
\* the Storage they share.
C14_Frame == [][C14_Step]_vars

\* t + v fails for t = arange(3) and its slice v = t[1:], whose Storage both hold
C14_Witness ==
    /\ lib = "1d" /\ last.op = "add" /\ last.raised = "ValueError"
    /\ last.t.size = 3 /\ last.arg.t.size = 2 /\ last.arg.t.storage = last.t.storage
    /\ storage[last.t.storage].ref_count = 2 /\ storage[last.t.storage].data = <<0, 1, 2>>

=============================================================================
